---------------------------- MODULE Spec2Model ----------------------------
(***************************************************************************)
(* A model of src/cryptography.py: the password-driven keystream generator *)
(* (generate_parameters, fractal_function, generate_keystream) and its     *)
(* randomness analyzer (shannon_entropy, nist_randomness_tests).           *)
(*                                                                         *)
(* Numbers.  The program computes in IEEE-754 doubles.  The model computes *)
(* in a scaled-down binary format of the same shape: a real number is an   *)
(* integer count of units of 2^-FracBits, every operation rounds its exact *)
(* result to the nearest unit, a result whose magnitude exceeds MaxFinite  *)
(* is not finite (the double's inf/nan, here the one value NaN), and a     *)
(* non-finite operand makes the result non-finite.  sin, cos and exp are   *)
(* the mathematical functions rounded to the format, as numpy's are.       *)
(***************************************************************************)
EXTENDS Integers, Sequences, FiniteSets

\* ------------------------------------------------------------ bounds
\* Fractional bits of the number format (a double has 52).
FracBits == 16
\* Largest requested keystream length of a single generation run.
MaxLen == 3
\* Largest requested length when two runs interleave.
MaxPairLen == 2
\* Longest run of one byte value in the analyzer's samples.
MaxRun == 15
\* Largest value of the wall clock read by time.time().
MaxClock == 1

\* ------------------------------------------------- the number format
Q == 2^FracBits
Limb == 2^15
Wide == 2^30
MaxFinite == Wide - 1
\* The non-finite value (inf or nan).
NaN == Wide

Fin(x) == x \in -MaxFinite..MaxFinite
Abs1(x) == IF x < 0 THEN -x ELSE x
Sign(x) == IF x < 0 THEN -1 ELSE 1
\* An exact result that left the format's range overflows to non-finite.
Overflow(x) == IF x > MaxFinite \/ x < -MaxFinite THEN NaN ELSE x
\* n / d rounded to the nearest integer (d > 0).
RoundDiv(n, d) == (2 * n + d) \div (2 * d)
\* A constant given in units of 2^-s, rounded to the format (s > FracBits).
ToQ(c, s) == (c + 2^(s - FracBits - 1)) \div 2^(s - FracBits)

Add(a, b) == IF Fin(a) /\ Fin(b) THEN Overflow(a + b) ELSE NaN
Neg(a) == IF Fin(a) THEN -a ELSE NaN
Sub(a, b) == Add(a, Neg(b))

\* The exact product of a, b in 0..MaxFinite, as hi * 2^30 + lo.
Mul2(a, b) ==
    LET a1 == a \div Limb
        a0 == a % Limb
        b1 == b \div Limb
        b0 == b % Limb
        m == a1 * b0 + a0 * b1
        low == (m % Limb) * Limb + a0 * b0
    IN [hi |-> a1 * b1 + m \div Limb + low \div Wide, lo |-> low % Wide]

WideLeq(x, y) == x.hi < y.hi \/ (x.hi = y.hi /\ x.lo <= y.lo)
WideAdd(x, y) ==
    [hi |-> x.hi + y.hi + (x.lo + y.lo) \div Wide, lo |-> (x.lo + y.lo) % Wide]

\* a * b, rounded.
Mul(a, b) ==
    IF ~(Fin(a) /\ Fin(b)) THEN NaN
    ELSE LET w == Mul2(Abs1(a), Abs1(b))
         IN IF w.hi >= Q THEN NaN
            ELSE Overflow(Sign(a) * Sign(b)
                          * (w.hi * (Wide \div Q) + (w.lo + Q \div 2) \div Q))

\* Long division of r / b, the state s = [q, r] holding the quotient so far
\* and the remainder: one more quotient bit, then n more (the first half of
\* them, then the rest).
DivStep(s, b) ==
    IF 2 * s.r >= b THEN [q |-> 2 * s.q + 1, r |-> 2 * s.r - b]
    ELSE [q |-> 2 * s.q, r |-> 2 * s.r]
RECURSIVE DivBits(_, _, _)
DivBits(s, n, b) ==
    IF s.r = 0 THEN [q |-> s.q * 2^n, r |-> 0]
    ELSE IF n = 1 THEN DivStep(s, b)
    ELSE DivBits(DivBits(s, n \div 2, b), n - n \div 2, b)

\* a / b, rounded (b # 0).
Div(a, b) ==
    IF ~(Fin(a) /\ Fin(b)) THEN NaN
    ELSE LET n == Abs1(a)
             d == Abs1(b)
             s == DivBits([q |-> n \div d, r |-> n % d], FracBits, d)
         IN IF n \div d >= Wide \div Q THEN NaN
            ELSE Overflow(Sign(a) * Sign(b)
                          * (s.q + (IF 2 * s.r >= d THEN 1 ELSE 0)))

\* The largest h below 2^30 with h * h <= s, found bit by bit from bit 29
\* down, the state t = [h, k] holding the bits found and the next bit's
\* place: one bit, then n bits (the first half of them, then the rest).
SqrtStep(t, s) ==
    LET c == t.h + 2^t.k
    IN [h |-> IF WideLeq(Mul2(c, c), s) THEN c ELSE t.h, k |-> t.k - 1]
RECURSIVE SqrtBits(_, _, _)
SqrtBits(t, n, s) ==
    IF t.k < 0 THEN t
    ELSE IF n = 1 THEN SqrtStep(t, s)
    ELSE SqrtBits(SqrtBits(t, n \div 2, s), n - n \div 2, s)

\* sqrt(a^2 + b^2), rounded: C's hypot.
Hypot(a, b) ==
    IF ~(Fin(a) /\ Fin(b)) THEN NaN
    ELSE LET s == WideAdd(Mul2(Abs1(a), Abs1(a)), Mul2(Abs1(b), Abs1(b)))
         IN IF s.hi >= Wide THEN NaN
            ELSE LET h == SqrtBits([h |-> 0, k |-> 29], 30, s).h
                     up == WideLeq(WideAdd(Mul2(h, h), [hi |-> 0, lo |-> h + 1]), s)
                 IN Overflow(IF up THEN h + 1 ELSE h)

\* ---------------------------------------------- math library functions
TwoPi == ToQ(1686629713, 28)
Pi == ToQ(843314857, 28)
HalfPi == ToQ(421657428, 28)
Ln2 == ToQ(186065279, 28)
\* exp overflows above ln(MaxFinite) and rounds to 0 below -ln(2 * Q).
ExpMax == (30 - FracBits) * Ln2
ExpMin == -((FracBits + 2) * Ln2)

\* e^r for |r| <= ln(2)/2, by its Taylor polynomial (Horner's rule from the
\* term of degree t.n down, t.acc the value so far).
RECURSIVE ExpPoly(_, _)
ExpPoly(r, t) ==
    IF t.n = 0 THEN t.acc
    ELSE ExpPoly(r, [n |-> t.n - 1, acc |-> Q + RoundDiv(Mul(r, t.acc), t.n)])

\* math.exp / np.exp of a real: x = k ln 2 + r, e^x = 2^k e^r.
Exp(x) ==
    IF ~Fin(x) \/ x > ExpMax THEN NaN
    ELSE IF x < ExpMin THEN 0
    ELSE LET k == RoundDiv(x, Ln2)
             r == x - ToQ(k * 46516320, 26)
             er == ExpPoly(r, [n |-> 8, acc |-> Q])
         IN IF k >= 0 THEN Overflow(er * 2^k) ELSE RoundDiv(er, 2^(-k))

\* cosh x and sinh x from p = e^x and n = e^-x.
HalfSum(p, n) == IF Fin(p) /\ Fin(n) THEN RoundDiv(p + n, 2) ELSE NaN
HalfDiff(p, n) == IF Fin(p) /\ Fin(n) THEN RoundDiv(p - n, 2) ELSE NaN

\* sin u / u and cos u for 0 <= u <= pi/2, w = u^2, by Taylor polynomials
\* (Horner's rule from the term of degree t.n down, t.acc the value so far).
RECURSIVE SinPoly(_, _)
SinPoly(w, t) ==
    IF t.n = 1 THEN t.acc
    ELSE SinPoly(w, [n |-> t.n - 2,
                     acc |-> Q - RoundDiv(Mul(w, t.acc), t.n * (t.n - 1))])
RECURSIVE CosPoly(_, _)
CosPoly(w, t) ==
    IF t.n = 0 THEN t.acc
    ELSE CosPoly(w, [n |-> t.n - 2,
                     acc |-> Q - RoundDiv(Mul(w, t.acc), t.n * (t.n - 1))])
SinT(u) == Mul(u, SinPoly(Mul(u, u), [n |-> 13, acc |-> Q]))
CosT(u) == CosPoly(Mul(u, u), [n |-> 14, acc |-> Q])

\* sin and cos of a real, reduced to the first quadrant.
Sin(x) ==
    IF ~Fin(x) THEN NaN
    ELSE LET t == x % TwoPi
         IN IF t <= HalfPi THEN SinT(t)
            ELSE IF t <= Pi THEN SinT(Pi - t)
            ELSE IF t <= Pi + HalfPi THEN -SinT(t - Pi)
            ELSE -SinT(TwoPi - t)
Cos(x) ==
    IF ~Fin(x) THEN NaN
    ELSE LET t == x % TwoPi
         IN IF t <= HalfPi THEN CosT(t)
            ELSE IF t <= Pi THEN -CosT(Pi - t)
            ELSE IF t <= Pi + HalfPi THEN -CosT(t - Pi)
            ELSE CosT(TwoPi - t)

\* ------------------------------------------------------ complex numbers
Cx(re, im) == [re |-> re, im |-> im]
CFin(z) == Fin(z.re) /\ Fin(z.im)
\* abs(z): the magnitude, non-finite when it overflows.
CAbs(z) == Hypot(z.re, z.im)
CAdd(a, b) == Cx(Add(a.re, b.re), Add(a.im, b.im))
CMul(a, b) == Cx(Sub(Mul(a.re, b.re), Mul(a.im, b.im)),
                 Add(Mul(a.re, b.im), Mul(a.im, b.re)))
\* z * r and z / r for a real r.
CScale(z, r) == Cx(Mul(z.re, r), Mul(z.im, r))
CDivReal(z, r) == Cx(Div(z.re, r), Div(z.im, r))
\* np.sin and np.cos of a complex number.
\* sin(x + iy) = sin x cosh y + i cos x sinh y and
\* cos(x + iy) = cos x cosh y - i sin x sinh y,
\* from s = sin x, c = cos x, p = e^y and n = e^-y.
SinParts(s, c, p, n) == Cx(Mul(s, HalfSum(p, n)), Mul(c, HalfDiff(p, n)))
CosParts(s, c, p, n) == Cx(Mul(c, HalfSum(p, n)), Neg(Mul(s, HalfDiff(p, n))))
CSin(z) == SinParts(Sin(z.re), Cos(z.re), Exp(z.im), Exp(Neg(z.im)))
CCos(z) == CosParts(Sin(z.re), Cos(z.re), Exp(z.im), Exp(Neg(z.im)))


\* ------------------------------------------------------- bit operations
\* x & (2^n - 1) for x >= 0.
LowBits(x, n) == x % 2^n
\* a ^ b for a, b in 0..2^n - 1: the low half of the bits, then the rest.
RECURSIVE BitXor(_, _, _)
BitXor(a, b, n) ==
    IF n = 1 THEN (a + b) % 2
    ELSE LET h == n \div 2
         IN BitXor(a % 2^h, b % 2^h, h)
            + 2^h * BitXor(a \div 2^h, b \div 2^h, n - h)

\* ------------------------------------------------------------- inputs
\* A password argument: a text string, or a value of another type.
Str(text) == [type |-> "str", text |-> text]
NotStr == [type |-> "int", text |-> "12345"]
\* The passwords whose digests the model tabulates.
Texts == {"", "a", "test"}

\* hashlib.sha256(text.encode()).digest() and hashlib.sha512(...).digest().
sha256_digest(text) ==
    CASE text = "" ->
         <<227, 176, 196, 66, 152, 252, 28, 20, 154, 251, 244, 200, 153, 111, 185, 36,
           39, 174, 65, 228, 100, 155, 147, 76, 164, 149, 153, 27, 120, 82, 184, 85>>
      [] text = "a" ->
         <<202, 151, 129, 18, 202, 27, 189, 202, 250, 194, 49, 179, 154, 35, 220, 77,
           167, 134, 239, 248, 20, 124, 78, 114, 185, 128, 119, 133, 175, 238, 72, 187>>
      [] text = "test" ->
         <<159, 134, 208, 129, 136, 76, 125, 101, 154, 47, 234, 160, 197, 90, 208, 21,
           163, 191, 79, 27, 43, 11, 130, 44, 209, 93, 108, 21, 176, 240, 10, 8>>
sha512_digest(text) ==
    CASE text = "" ->
         <<207, 131, 225, 53, 126, 239, 184, 189, 241, 84, 40, 80, 214, 109, 128, 7,
           214, 32, 228, 5, 11, 87, 21, 220, 131, 244, 169, 33, 211, 108, 233, 206,
           71, 208, 209, 60, 93, 133, 242, 176, 255, 131, 24, 210, 135, 126, 236, 47,
           99, 185, 49, 189, 71, 65, 122, 129, 165, 56, 50, 122, 249, 39, 218, 62>>
      [] text = "a" ->
         <<31, 64, 252, 146, 218, 36, 22, 148, 117, 9, 121, 238, 108, 245, 130, 242,
           213, 215, 210, 142, 24, 51, 93, 224, 90, 188, 84, 208, 86, 14, 15, 83,
           2, 134, 12, 101, 43, 240, 141, 86, 2, 82, 170, 94, 116, 33, 5, 70,
           243, 105, 251, 187, 206, 140, 18, 207, 199, 149, 123, 38, 82, 254, 154, 117>>
      [] text = "test" ->
         <<238, 38, 176, 221, 74, 247, 231, 73, 170, 26, 142, 227, 193, 10, 233, 146,
           63, 97, 137, 128, 119, 46, 71, 63, 136, 25, 165, 212, 148, 14, 13, 178,
           122, 193, 133, 248, 160, 225, 213, 248, 79, 136, 188, 136, 127, 214, 123, 20,
           55, 50, 195, 4, 204, 95, 169, 173, 142, 111, 87, 245, 0, 40, 168, 255>>

\* ------------------------------------------------ parameter derivation
\* int_val / (2^64 - 1) keeps the leading bits of the 64-bit integer; imag
\* divides its low 16 bits, byte_list[7..8], by 2^16 - 1.
bytes_to_complex(byte_list) ==
    LET lead == ((byte_list[1] * 256 + byte_list[2]) * 256 + byte_list[3]) * 64
                + byte_list[4] \div 4
        normalized == RoundDiv(lead, 2^(30 - FracBits))
        real == Sub(Mul(normalized, 4 * Q), 2 * Q)
        imag == Sub(Mul(Div(byte_list[7] * 256 + byte_list[8], 2^16 - 1), 4 * Q),
                    2 * Q)
    IN Cx(real, imag)

generate_parameters(password) ==
    LET h256 == sha256_digest(password.text)
        h512 == sha512_digest(password.text)
    IN [alpha |-> bytes_to_complex(SubSeq(h256, 1, 8)),
        beta |-> bytes_to_complex(SubSeq(h512, 17, 24)),
        gamma |-> bytes_to_complex(SubSeq(h256, 25, 32))]

\* ---------------------------------------------------------- the map step
\* max_mag = 100.0, the default of fractal_function.
MaxMagUnits == 100
MaxMag == MaxMagUnits * Q
Zero == Cx(0, 0)

\* numpy's floating-point error state.  The program never calls np.seterr,
\* so it is numpy's default: an overflow is a RuntimeWarning and its result
\* is inf; nothing is raised.
np_errstate == "warn"
\* Whether computing lines 59-63 raises OverflowError or FloatingPointError.
raises_overflow(result) == np_errstate = "raise" /\ ~CFin(result)

\* if abs(z) > max_mag: z = z / abs(z) * max_mag, with mag = abs(z).
clamp(z, mag, max_mag) ==
    IF mag > max_mag THEN CScale(CDivReal(z, mag), max_mag) ELSE z
\* x % (2 * np.pi).
Mod2Pi(x) == IF Fin(x) THEN x % TwoPi ELSE NaN

\* Lines 56-57: the clamp of the incoming state.
clamp_input(z, max_mag) == clamp(z, CAbs(z), max_mag)
\* Lines 59-63: term1 + term2 + term3 at the clamped state z.
map_terms(z, alpha, beta, gamma) ==
    LET z_safe == Cx(Mod2Pi(z.re), Mod2Pi(z.im))
        term1 == CSin(CAdd(z_safe, alpha))
        term2 == CMul(beta, CCos(CScale(z_safe, Q \div 2)))
        term3 == CScale(CMul(gamma, z_safe), Exp(Neg(CAbs(z_safe))))
    IN CAdd(CAdd(term1, term2), term3)
\* Lines 64-67: the except branch and the clamp of the result.
handled(sum) == IF raises_overflow(sum) THEN Zero ELSE sum
clamp_result(sum, max_mag) ==
    clamp(handled(sum), CAbs(handled(sum)), max_mag)
fractal_function(z, alpha, beta, gamma, max_mag) ==
    clamp_result(map_terms(clamp_input(z, max_mag), alpha, beta, gamma),
                 max_mag)

\* abs(z) on line 56 raises OverflowError for a Python complex z whose
\* magnitude is not a finite double.
abs_raises(z) == CFin(z) /\ ~Fin(CAbs(z))

\* ------------------------------------------------------ byte extraction
\* abs(x) - int(abs(x)).
frac_part(x) == Abs1(x) - (Abs1(x) \div Q) * Q
\* int(x * 2^e) for x >= 0: the scaling by a power of two is exact.
scaled_int(x, e) ==
    IF e >= FracBits THEN x * 2^(e - FracBits) ELSE x \div 2^(FracBits - e)
quantize(x) == LowBits(scaled_int(frac_part(x), 20), 24)
\* The XOR emitted without the mask of its low eight bits.
byte_unmasked(re_int, im_int) == BitXor(re_int, im_int, 24)
byte_of(re_int, im_int) == LowBits(BitXor(re_int, im_int, 24), 8)


\* ------------------------------------------------- keystream generation
Procs == {1, 2}

\* seed = complex(0.5, 0.3), the default of generate_keystream.
DefaultSeed == Cx(Div(1, 2), Div(3, 10))
\* A seed far outside the clamp radius, and the largest finite seed, whose
\* magnitude is not a finite number.
HugeSeed == Cx(1000 * Q, 1000 * Q)
LargestSeed == Cx(MaxFinite, MaxFinite)

VARIABLES
    args,      \* args[p]: the arguments (password, length, seed) of call p
    pc,        \* pc[p]: "idle", "called", "loop", "returned" or "raised"
    exc,       \* exc[p]: the exception call p raised, or "none"
    loc,       \* loc[p]: the local variables of call p
    out,       \* out[p]: the lines call p printed
    clock,     \* time.time()
    alone,     \* alone[p]: what call p returns when it runs on its own, a
               \* history variable that no call reads
    fx,        \* a direct call of fractal_function and its result
    an         \* a run of the analyzer functions on a byte sequence

vars == <<args, pc, exc, loc, out, clock, alone, fx, an>>

NoArgs == [password |-> Str(""), length |-> 0, seed |-> DefaultSeed]
NoFrame ==
    [alpha |-> Zero, beta |-> Zero, gamma |-> Zero, z |-> Zero,
     keystream |-> <<>>, i |-> 0, start_time |-> 0, re_int |-> 0, im_int |-> 0]

\* password.encode() exists for text strings only (AttributeError otherwise).
has_encode(password) == password.type = "str"
\* A start state that the requested length perturbs.
initial_z_by_length(a) == Cx(a.seed.re + a.length, a.seed.im)
\* z = seed (line 72).
initial_z(a) == a.seed
\* The frame after lines 71-75.
entry_frame(a, now) ==
    LET par == generate_parameters(a.password)
    IN [NoFrame EXCEPT !.alpha = par.alpha, !.beta = par.beta,
                       !.gamma = par.gamma, !.z = initial_z(a),
                       !.start_time = now]
\* A loop that runs once more than requested.
loop_continues_inclusive(l, length) == l.i <= length
\* for i in range(length): whether another iteration follows.
loop_continues(l, length) == l.i < length
\* A frame whose z is a module-level variable, the one call 1 last wrote.
shared_frame(p) == [loc[p] EXCEPT !.z = loc[1].z]
\* The frame a call's loop iteration reads and writes: its own locals.
frame(p) == loc[p]
\* i % 5000 == 0 (line 77).
ProgressEvery == 5000
reports_progress(l) == l.i % ProgressEvery = 0
\* An iteration that lets the elapsed time read on line 78 leak into z.
loop_body_timed(l, zn, now) ==
    LET zt == Cx(zn.re + (now - l.start_time), zn.im)
        re == quantize(zt.re)
        im == quantize(zt.im)
    IN [l EXCEPT !.z = zt, !.re_int = re, !.im_int = im,
                 !.keystream = Append(@, byte_of(re, im)), !.i = @ + 1]
\* Lines 80-86 on frame l, given the new state zn; now is the time read on
\* line 78, which only the printed line uses.
loop_body(l, zn, now) ==
    LET re == quantize(zn.re)
        im == quantize(zn.im)
    IN [l EXCEPT !.z = zn, !.re_int = re, !.im_int = im,
                 !.keystream = Append(@, byte_of(re, im)), !.i = @ + 1]

\* Lines 70-75: derive the coefficients, set z, print, read the clock.
Enter(p) ==
    /\ pc[p] = "called"
    /\ IF has_encode(args[p].password)
       THEN /\ loc' = [loc EXCEPT ![p] = entry_frame(args[p], clock)]
            /\ out' = [out EXCEPT ![p] =
                   Append(@, [line |-> "Generating", n |-> args[p].length,
                              elapsed |-> 0])]
            /\ pc' = [pc EXCEPT ![p] = "loop"]
            /\ UNCHANGED exc
       ELSE /\ pc' = [pc EXCEPT ![p] = "raised"]
            /\ exc' = [exc EXCEPT ![p] = "AttributeError"]
            /\ UNCHANGED <<loc, out>>
    /\ UNCHANGED <<args, clock, alone, fx, an>>

\* One iteration of the loop, lines 76-86: l is the frame the iteration
\* works on and zn the value line 80 computes.
Iterate(p) ==
    /\ pc[p] = "loop"
    /\ loop_continues(loc[p], args[p].length)
    /\ \E l \in {frame(p)} :
       \E zn \in {fractal_function(l.z, l.alpha, l.beta, l.gamma, MaxMag)} :
          /\ out' = [out EXCEPT ![p] =
                 IF reports_progress(l)
                 THEN Append(@, [line |-> "Generated", n |-> l.i,
                                 elapsed |-> clock - l.start_time])
                 ELSE @]
          /\ IF abs_raises(l.z)
             THEN /\ pc' = [pc EXCEPT ![p] = "raised"]
                  /\ exc' = [exc EXCEPT ![p] = "OverflowError"]
                  /\ UNCHANGED loc
             ELSE IF ~CFin(zn)
             THEN \* int() of a non-finite number
                  /\ pc' = [pc EXCEPT ![p] = "raised"]
                  /\ exc' = [exc EXCEPT ![p] = "ValueError"]
                  /\ loc' = [loc EXCEPT ![p].z = zn]
             ELSE /\ loc' = [loc EXCEPT ![p] = loop_body(l, zn, clock)]
                  /\ UNCHANGED <<pc, exc>>
    /\ UNCHANGED <<args, clock, alone, fx, an>>

\* return keystream (line 87).
Return(p) ==
    /\ pc[p] = "loop"
    /\ ~loop_continues(loc[p], args[p].length)
    /\ pc' = [pc EXCEPT ![p] = "returned"]
    /\ UNCHANGED <<args, exc, loc, out, clock, alone, fx, an>>

\* Time passes.
Tick ==
    /\ clock < MaxClock
    /\ clock' = clock + 1
    /\ UNCHANGED <<args, pc, exc, loc, out, alone, fx, an>>

Next == Tick \/ \E p \in Procs : Enter(p) \/ Iterate(p) \/ Return(p)

NoCall == [z |-> Zero, alpha |-> Zero, beta |-> Zero, gamma |-> Zero,
           done |-> FALSE, result |-> Zero, raised |-> FALSE]
NoRun == [data |-> <<>>, pc |-> "idle"]

\* One call, with any arguments a caller can pass.
Lengths == -1..MaxLen
Passwords == {Str(t) : t \in Texts} \cup {NotStr}
Seeds == {DefaultSeed, HugeSeed, LargestSeed}
Calls == [password : Passwords, length : Lengths, seed : Seeds]

Init ==
    /\ args \in {[p \in Procs |-> IF p = 1 THEN a ELSE NoArgs] : a \in Calls}
    /\ pc = [p \in Procs |-> IF p = 1 THEN "called" ELSE "idle"]
    /\ exc = [p \in Procs |-> "none"]
    /\ loc = [p \in Procs |-> NoFrame]
    /\ out = [p \in Procs |-> <<>>]
    /\ clock = 0
    /\ alone = [p \in Procs |-> <<>>]
    /\ fx = NoCall
    /\ an = NoRun

Spec == Init /\ [][Next]_vars

\* Two calls whose steps interleave in any order.
PairLengths == 0..MaxPairLen
PairCalls == [password : {Str(""), Str("test")}, length : PairLengths,
              seed : {DefaultSeed, HugeSeed}]

\* The loop of lines 76-86 run to its end on frame l, nothing else running.
RECURSIVE run_loop(_, _)
run_loop(l, length) ==
    IF l.i >= length THEN l
    ELSE run_loop(loop_body(l, fractal_function(l.z, l.alpha, l.beta,
                                                l.gamma, MaxMag), 0), length)
\* generate_keystream(password, length, seed) called on its own.
generate_keystream(a) ==
    run_loop([NoFrame EXCEPT !.alpha = generate_parameters(a.password).alpha,
                             !.beta = generate_parameters(a.password).beta,
                             !.gamma = generate_parameters(a.password).gamma,
                             !.z = a.seed], a.length).keystream

InitPair ==
    /\ args \in [Procs -> PairCalls]
    /\ pc = [p \in Procs |-> "called"]
    /\ exc = [p \in Procs |-> "none"]
    /\ loc = [p \in Procs |-> NoFrame]
    /\ out = [p \in Procs |-> <<>>]
    /\ clock = 0
    /\ alone = [p \in Procs |-> generate_keystream(args[p])]
    /\ fx = NoCall
    /\ an = NoRun

SpecPair == InitPair /\ [][Next]_vars

\* ------------------------------------------- the map step called alone
\* Coefficients a caller can pass: none, those of a password, and ones of
\* large magnitude.
MapStates == {Zero, DefaultSeed, HugeSeed, LargestSeed}
MapAlphas == {Zero, generate_parameters(Str("test")).alpha, Cx(0, 800 * Q)}
MapBetas == {Zero, generate_parameters(Str("test")).beta, Cx(450 * Q, 550 * Q)}
MapGammas == {Zero, generate_parameters(Str("test")).gamma}

InitMap ==
    /\ fx \in {[NoCall EXCEPT !.z = z, !.alpha = a, !.beta = b, !.gamma = g] :
                  z \in MapStates, a \in MapAlphas, b \in MapBetas,
                  g \in MapGammas}
    /\ args = [p \in Procs |-> NoArgs]
    /\ pc = [p \in Procs |-> "idle"]
    /\ exc = [p \in Procs |-> "none"]
    /\ loc = [p \in Procs |-> NoFrame]
    /\ out = [p \in Procs |-> <<>>]
    /\ clock = 0
    /\ alone = [p \in Procs |-> <<>>]
    /\ an = NoRun

\* fractal_function(z, alpha, beta, gamma) with the default max_mag.
MapStep ==
    /\ ~fx.done
    /\ fx' = IF abs_raises(fx.z)
             THEN [fx EXCEPT !.done = TRUE, !.raised = TRUE]
             ELSE [fx EXCEPT !.done = TRUE,
                             !.result = fractal_function(fx.z, fx.alpha,
                                            fx.beta, fx.gamma, MaxMag)]
    /\ UNCHANGED <<args, pc, exc, loc, out, clock, alone, an>>

NextMap == MapStep
SpecMap == InitMap /\ [][NextMap]_vars

\* --------------------------------------------------------- the analyzer
\* math.log2(x) for x > 0: the exponent, then one bit of the fraction for
\* each squaring of the mantissa y in [1, 2).
Log2Step(t) ==
    IF Mul(t.y, t.y) >= 2 * Q
    THEN [y |-> RoundDiv(Mul(t.y, t.y), 2), acc |-> 2 * t.acc + 1]
    ELSE [y |-> Mul(t.y, t.y), acc |-> 2 * t.acc]
RECURSIVE Log2Bits(_, _)
Log2Bits(t, n) ==
    IF t.y < 0 THEN t
    ELSE IF n = 1 THEN Log2Step(t)
    ELSE Log2Bits(Log2Bits(t, n \div 2), n - n \div 2)
Log2(x) ==
    LET e == CHOOSE e \in (FracBits - 30)..FracBits :
                 IF e >= 0 THEN Q <= x * 2^e /\ x * 2^e < 2 * Q
                 ELSE Q * 2^(-e) <= x /\ x \div 2^(-e) < 2 * Q
        y == IF e >= 0 THEN x * 2^e ELSE x \div 2^(-e)
    IN Log2Bits([y |-> y, acc |-> 0], FracBits).acc - e * Q

\* The positions of collections.Counter(data)'s keys, in insertion order.
first_seen(data) ==
    LET is_first(k) == \A j \in 1..(k - 1) : data[j] # data[k]
    IN SelectSeq([k \in 1..Len(data) |-> k], is_first)
count_of(data, v) == Cardinality({k \in DOMAIN data : data[k] = v})
\* p * math.log2(p) for p = count / length.
entropy_term(count, length) == Mul(Div(count, length), Log2(Div(count, length)))
\* The terms of keys lo..hi, added up.
RECURSIVE entropy_sum(_, _, _, _)
entropy_sum(data, keys, lo, hi) ==
    IF lo > hi THEN 0
    ELSE IF lo = hi
    THEN entropy_term(count_of(data, data[keys[lo]]), Len(data))
    ELSE Add(entropy_sum(data, keys, lo, (lo + hi) \div 2),
             entropy_sum(data, keys, (lo + hi) \div 2 + 1, hi))
shannon_entropy(data) ==
    IF data = <<>> THEN 0
    ELSE Sub(0, entropy_sum(data, first_seen(data), 1, Len(first_seen(data))))

\* bin(byte)[2:].zfill(8) for every byte, most significant bit first.
bits_of(keystream) ==
    [k \in 1..(8 * Len(keystream)) |->
        (keystream[(k - 1) \div 8 + 1] \div 2^(7 - ((k - 1) % 8))) % 2]
count_ones(bits) == Cardinality({k \in DOMAIN bits : bits[k] = 1})
\* runs = 1, plus one for every i in 1..len(bits)-1 with bits[i] != bits[i-1].
count_runs(bits) ==
    1 + Cardinality({k \in 2..Len(bits) : bits[k] # bits[k - 1]})
\* 0.486 < ones / len(bits) < 0.514.
freq_test(ones, n) == 486 * n < 1000 * ones /\ 1000 * ones < 514 * n
\* The exponent of the double 2 * runs: 2^e <= 2 * runs < 2^(e + 1).
exponent_of(v) == CHOOSE e \in 0..30 : 2^e <= v /\ v < 2^(e + 1)
\* runs > 0.9 * n / 2 and runs < 1.1 * n / 2 in double arithmetic.  0.9 is a
\* double below 9/10 whose product with n, halved, still compares as the
\* exact 9n/20 does.  1.1 is a double above 11/10: when runs is exactly
\* 11n/20, the product 1.1 * n rounds to 2 * runs only if the excess
\* n * (1.1 - 11/10) is below half a unit in the last place of 2 * runs, and
\* otherwise rounds above it.
runs_test(runs, n) ==
    /\ 20 * runs > 9 * n
    /\ \/ 20 * runs < 11 * n
       \/ 20 * runs = 11 * n /\ n > 5 * 2^(exponent_of(2 * runs) - 2)
\* abs(np.corrcoef(bits[:-1], bits[1:])[0,1]) < 0.02, on the exact sums: a
\* constant half has no variance and the coefficient is nan.
autocorr_test(bits) ==
    LET n == Len(bits) - 1
        sx == Cardinality({k \in 1..n : bits[k] = 1})
        sy == Cardinality({k \in 1..n : bits[k + 1] = 1})
        sxy == Cardinality({k \in 1..n : bits[k] = 1 /\ bits[k + 1] = 1})
        cov == Abs1(n * sxy - sx * sy)
        vx == n * sx - sx * sx
        vy == n * sy - sy * sy
    IN /\ vx > 0
       /\ vy > 0
       /\ ~WideLeq(Mul2(vx, vy), Mul2(50 * cov, 50 * cov))
nist_randomness_tests(keystream) ==
    LET bits == bits_of(keystream)
        ones == count_ones(bits)
        runs == count_runs(bits)
    IN IF Len(bits) = 0
       THEN [raised |-> "ZeroDivisionError", ones |-> ones, runs |-> 0,
             frequency_test |-> FALSE, runs_test |-> FALSE,
             autocorrelation |-> FALSE]
       ELSE [raised |-> "none", ones |-> ones, runs |-> runs,
             frequency_test |-> freq_test(ones, Len(bits)),
             runs_test |-> runs_test(runs, Len(bits)),
             autocorrelation |-> IF Len(bits) > 1 THEN autocorr_test(bits)
                                 ELSE TRUE]

\* Byte sequences the analyzer is given: a run of one byte, then a run of
\* another.
SampleBytes == {0, 15, 85, 255}
Repeat(v, n) == [k \in 1..n |-> v]
Samples ==
    {Repeat(v, a) \o Repeat(w, b) :
        v \in SampleBytes, w \in SampleBytes, a \in 0..MaxRun, b \in 0..MaxRun}

InitAnalyze ==
    /\ an \in {[NoRun EXCEPT !.data = d, !.pc = "start"] : d \in Samples}
    /\ args = [p \in Procs |-> NoArgs]
    /\ pc = [p \in Procs |-> "idle"]
    /\ exc = [p \in Procs |-> "none"]
    /\ loc = [p \in Procs |-> NoFrame]
    /\ out = [p \in Procs |-> <<>>]
    /\ clock = 0
    /\ alone = [p \in Procs |-> <<>>]
    /\ fx = NoCall

\* entropy = shannon_entropy(keystream) (line 142).
Entropy ==
    /\ an.pc = "start"
    /\ an' = [data |-> an.data, pc |-> "entropy",
              entropy |-> shannon_entropy(an.data)]
    /\ UNCHANGED <<args, pc, exc, loc, out, clock, alone, fx>>

\* nist_results = nist_randomness_tests(keystream) (line 143).
Nist ==
    /\ an.pc = "entropy"
    /\ LET r == nist_randomness_tests(an.data)
       IN an' = [data |-> an.data, entropy |-> an.entropy,
                 pc |-> IF r.raised = "none" THEN "done" ELSE "raised",
                 report |-> r]
    /\ UNCHANGED <<args, pc, exc, loc, out, clock, alone, fx>>

NextAnalyze == Entropy \/ Nist
SpecAnalyze == InitAnalyze /\ [][NextAnalyze]_vars

\* --------------------------------------------------------- properties
Started(p) == pc[p] \in {"loop", "returned"}
Bit(x, j) == (x \div 2^j) % 2

\* C1: a call that returns for a requested length n >= 0 returns exactly n
\* elements, and the empty sequence for n = 0, whatever the password and
\* the seed.
C1_LengthContract ==
    \A p \in Procs :
        (pc[p] = "returned" /\ args[p].length >= 0) =>
            /\ Len(loc[p].keystream) = args[p].length
            /\ (args[p].length = 0 => loc[p].keystream = <<>>)
C1_Witness ==
    /\ pc[1] = "returned"
    /\ args[1].length = MaxLen
    /\ args[1].password = Str("")
    /\ Len(loc[1].keystream) = MaxLen

\* C2: a call with a negative length or with a password that is not a text
\* string never returns a keystream; it ends by raising.
C2_MalformedRejected ==
    \A p \in Procs :
        (args[p].length < 0 \/ args[p].password.type # "str") =>
            pc[p] # "returned"

\* C3: in every state of the loop every byte of the keystream is in 0..255,
\* re_int and im_int are in 0..2^20 - 1, and the byte last appended is the
\* bitwise XOR of the low eight bits of re_int and im_int.
C3_ByteRange ==
    \A p \in Procs :
        Started(p) =>
            /\ \A k \in DOMAIN loc[p].keystream :
                   loc[p].keystream[k] \in 0..255
            /\ loc[p].re_int \in 0..(2^20 - 1)
            /\ loc[p].im_int \in 0..(2^20 - 1)
            /\ loc[p].i > 0 =>
                   \A j \in 0..7 :
                       Bit(loc[p].keystream[loc[p].i], j)
                           = (Bit(loc[p].re_int, j) + Bit(loc[p].im_int, j)) % 2
C3_Witness ==
    /\ pc[1] = "loop"
    /\ loc[1].i = MaxLen
    /\ loc[1].re_int > 255
    /\ loc[1].im_int > 255
    /\ loc[1].re_int # loc[1].im_int
    /\ loc[1].keystream[MaxLen] > 0

\* C4: two calls with the same password, length and seed that have done the
\* same number of iterations hold the same z and the same bytes, whatever
\* the clock showed to each of them; so they return identical sequences.
C4_Deterministic ==
    \A p, q \in Procs :
        (Started(p) /\ Started(q) /\ args[p] = args[q]
            /\ loc[p].i = loc[q].i) =>
            /\ loc[p].z = loc[q].z
            /\ loc[p].keystream = loc[q].keystream
C4_Witness ==
    /\ pc[1] = "returned"
    /\ pc[2] = "returned"
    /\ args[1] = args[2]
    /\ args[1].length = MaxPairLen
    /\ out[1] # out[2]
    /\ loc[1].keystream = loc[2].keystream

\* C5: on a keystream whose bit sequence has at most one bit, the analyzer
\* completes: nist_randomness_tests raises nothing and its autocorrelation
\* entry is the one computed from a correlation of 0, and shannon_entropy
\* is 0.0.
C5_DegenerateDefined ==
    (an.pc \in {"done", "raised"} /\ 8 * Len(an.data) <= 1) =>
        /\ an.pc = "done"
        /\ an.report.raised = "none"
        /\ an.report.autocorrelation
        /\ an.entropy = 0

\* C6: one call of fractal_function that returns a finite z' returns one
\* with |z'| <= max_mag, whatever the magnitude of z and the coefficients.
C6_ResultClamped ==
    (fx.done /\ ~fx.raised /\ CFin(fx.result)) => CAbs(fx.result) <= MaxMag

\* C7: for a non-empty keystream of N bits, runs is 1 plus the number of
\* positions whose bit differs from the one before, and runs_test is true
\* exactly when 0.9 * N/2 < runs < 1.1 * N/2, that is 9N < 20 runs < 11N.
C7_RunsStrict ==
    (an.pc = "done" /\ an.data # <<>>) =>
        LET N == 8 * Len(an.data)
            changes == {k \in 2..N : Bit(an.data[(k - 1) \div 8 + 1],
                                         7 - ((k - 1) % 8))
                                     # Bit(an.data[(k - 2) \div 8 + 1],
                                           7 - ((k - 2) % 8))}
        IN /\ an.report.runs = 1 + Cardinality(changes)
           /\ an.report.runs_test
                  <=> (9 * N < 20 * an.report.runs
                       /\ 20 * an.report.runs < 11 * N)

\* C8: a call whose iterations interleave with another call's returns the
\* sequence it returns when it runs alone.
C8_NoInterference ==
    \A p \in Procs :
        pc[p] = "returned" => loc[p].keystream = alone[p]
C8_Witness ==
    /\ pc[1] = "returned"
    /\ pc[2] = "returned"
    /\ args[1].password # args[2].password
    /\ args[1].seed # args[2].seed
    /\ args[1].length = MaxPairLen
    /\ args[2].length = MaxPairLen - 1
    /\ loc[1].keystream[1] # loc[2].keystream[1]

\* C9: when the three terms of a map step overflow, the step returns 0+0i
\* (the substituted result, which the output clamp leaves alone).
C9_OverflowRecovered ==
    (fx.done /\ ~fx.raised
        /\ ~CFin(map_terms(clamp_input(fx.z, MaxMag), fx.alpha, fx.beta,
                           fx.gamma))) =>
        fx.result = Zero

\* C10: for one password and seed and lengths n <= m, the sequence returned
\* for n is the first n elements of the one returned for m; during the loop
\* the keystream has one byte for each iteration done and the coefficients
\* stay the ones derived before the loop.
C10_PrefixConsistent ==
    /\ \A p \in Procs :
           Started(p) =>
               /\ Len(loc[p].keystream) = loc[p].i
               /\ \E par \in {generate_parameters(args[p].password)} :
                      /\ loc[p].alpha = par.alpha
                      /\ loc[p].beta = par.beta
                      /\ loc[p].gamma = par.gamma
    /\ \A p, q \in Procs :
           (pc[p] = "returned" /\ pc[q] = "returned"
               /\ args[p].password = args[q].password
               /\ args[p].seed = args[q].seed
               /\ args[p].length <= args[q].length) =>
               loc[p].keystream
                   = SubSeq(loc[q].keystream, 1, args[p].length)
C10_Witness ==
    /\ pc[1] = "returned"
    /\ pc[2] = "returned"
    /\ args[1].password = args[2].password
    /\ args[1].seed = args[2].seed
    /\ args[1].length = 1
    /\ args[2].length = MaxPairLen
    /\ Len(loc[2].keystream) > Len(loc[1].keystream)

=============================================================================
